---- MODULE Spec2Model ----
(***************************************************************************)
(* A model of the raytracer of src/main.cc.                                *)
(*                                                                         *)
(* Two state machines share this module.                                   *)
(*   Spec / FairSpec : the frame driver (main, lines 61-130) and the       *)
(*                     NUM_THREADS workers (thread_fn, lines 266-304).     *)
(*   TraceSpec     : one top-level call raytrace(o, d, 0)                  *)
(*                     (lines 139-220) run with an explicit call stack.    *)
(*                                                                         *)
(* The macros HEIGHT, NUM_THREADS are inputs of the frame machine, drawn   *)
(* from 1..MaxHeight and 1..MaxThreads; WIDTH and MAX_REFLECTIONS keep     *)
(* their names and are scaled down (640 -> 2, 10 -> 1).  The geometry of   *)
(* a ray (geom.hh, vec.hh) enters as the values the shapes return for it.  *)
(* Finite floating-point values are fixed point, in units of 1/One.        *)
(***************************************************************************)
EXTENDS Integers, Sequences, FiniteSets

VARIABLES
    \* ---- frame driver (main) ----
    height,        \* HEIGHT (line 19), an input of the partitioning
    nthreads,      \* NUM_THREADS (line 26), an input of the partitioning
    pc,            \* position of main; "crashed": the process was killed,
                   \* "hung": main is blocked in pthread_join for ever
    running,       \* bool running (line 71)
    events,        \* the SDL event queue, oldest first
    nposted,       \* how many events the environment has posted
    clock,         \* the last value time_ms() returned
    start_time,    \* line 69
    yrot,          \* line 89
    per_thread,    \* line 99
    i,             \* loop variable of lines 100-108
    j,             \* loop variable of lines 111-113
    args,          \* pthread_args_t args[NUM_THREADS] (without bmp)
    th,            \* per worker: state and loop position (y, x)
    bmp,           \* the bitmap of the current iteration
    writes,        \* history: <<worker, x, y>> for every bmp->set of the frame
    shown,         \* <<the bitmap ui.display received last>>, or <<>>
    quit_frames,   \* history: frames set up after running became false
    exit_code,     \* <<the value main returned>>, or <<>>
    \* ---- raytrace ----
    scene,         \* std::vector<shape*> scene
    tpc,           \* "idle", "run", "done"
    stack,         \* call stack of raytrace, outermost first
    hits,          \* what shape->intersection returned in the last closest-hit loop
    probe,         \* inputs and effect of the last iteration of the light loop
    retval,        \* what the outermost call returned
    ncalls,        \* history: invocations of raytrace since the top-level call
    nsteps         \* history: steps taken since the top-level call

frame_vars == <<height, nthreads, pc, running, events, nposted, clock, start_time,
                yrot, per_thread, i, j, args, th, bmp, writes,
                shown, quit_frames, exit_code>>
trace_vars == <<scene, tpc, stack, hits, probe, retval, ncalls, nsteps>>
vars == <<frame_vars, trace_vars>>

(***************************************************************************)
(* Bounds                                                                  *)
(***************************************************************************)
MaxHeight == 3
MaxThreads == 2
MaxEvents == 1
MaxTime == 1
WIDTH == 2
OVERSAMPLE == 2
MaxShapes == 2
MaxDist == 1
MAX_REFLECTIONS == 1

\* fixed point: the value v is the integer v * One
One == 10 * 100
AMBIENT == 300

\* a bitmap cell no worker has set, and an args slot not filled yet
Unset == [rot |-> -1, rays |-> {}]
NoArgs == [start |-> -1, end |-> -1, yrot |-> -1]

(***************************************************************************)
(* Frame driver: row partitioning (lines 99-103)                           *)
(***************************************************************************)
PerThread(h, n) == h \div n

BandStart(idx, per) == idx * per

BandEndOverlap(idx, per) == BandStart(idx, per) + per + 1
BandEnd(idx, per) == BandStart(idx, per) + per

Workers == 0 .. (nthreads - 1)
Cells == (0 .. (WIDTH - 1)) \X (0 .. (height - 1))

(***************************************************************************)
(* Worker: one pixel (lines 276-296).  The colour of a pixel is the        *)
(* average of raytrace over the OVERSAMPLE x OVERSAMPLE rays through the   *)
(* sub-pixel centres (x + (xs + 0.5)/OVERSAMPLE, y + (ys + 0.5)/OVERSAMPLE)*)
(* rotated by yrot.  raytrace reads only the scene, so the pixel is kept   *)
(* as the rays it averages: sample coordinates in units of                 *)
(* 1/(2*OVERSAMPLE) pixel, and the angle.                                  *)
(***************************************************************************)
Sample(c, s) == 2 * OVERSAMPLE * c + 2 * s + 1

PixelColor(x, y, rot) ==
    [rot |-> rot,
     rays |-> { <<Sample(x, xs), Sample(y, ys)>> :
                   xs \in 0 .. (OVERSAMPLE - 1), ys \in 0 .. (OVERSAMPLE - 1) }]

\* args[i].yrot = yrot (line 104)
ArgYrotPerWorker(rot, idx) == rot + idx
ArgYrot(rot, idx) == rot

\* while(running) (line 80)
LoopCondAlways(r) == TRUE
LoopCond(r) == r

\* pthread_join returns once the worker has returned (line 112)
JoinReadyAny(state) == state \in {"running", "finished"}
JoinReady(state) == state = "finished"

\* for(int y = tharg->start; y < tharg->end; y++) (line 270)
RowCond(y, end) == y < end

(***************************************************************************)
(* float and vec arithmetic (<cmath>, vec.hh).  A value is an IEEE value:  *)
(* finite, infinite or NaN.  A finite value is a sign and a magnitude in   *)
(* units of 1/One, so that -0.0 and 0.0 are two values; a product and a    *)
(* power are rounded toward zero to a multiple of 1/One.  Magnitudes are   *)
(* below 2^31 / One.                                                       *)
(***************************************************************************)
Fin(v) == [class |-> "fin", neg |-> v < 0, mag |-> IF v < 0 THEN -v ELSE v]
NegZero == [class |-> "fin", neg |-> TRUE, mag |-> 0]
Infinity(neg) == [class |-> "inf", neg |-> neg, mag |-> 0]
NaN == [class |-> "nan", neg |-> FALSE, mag |-> 0]

IsNaN(a) == a.class = "nan"
IsInf(a) == a.class = "inf"
IsZero(a) == a.class = "fin" /\ a.mag = 0

\* the number a finite value stands for, in units of 1/One
Val(a) == IF a.neg THEN -a.mag ELSE a.mag

\* a >= b; false when either is NaN; -0.0 and 0.0 compare equal
GreaterEq(a, b) ==
    /\ ~IsNaN(a)
    /\ ~IsNaN(b)
    /\ IF IsInf(a) THEN ~a.neg \/ (IsInf(b) /\ b.neg)
       ELSE IF IsInf(b) THEN b.neg
       ELSE Val(a) >= Val(b)

\* a * b / One for magnitudes, without forming a * b
MulMag(a, b) ==
    LET hi == IF a >= b THEN a ELSE b
        lo == IF a >= b THEN b ELSE a
    IN  (hi \div One) * lo + ((hi % One) * lo) \div One

\* float operator*
Mul(a, b) ==
    IF IsNaN(a) \/ IsNaN(b) THEN NaN
    ELSE IF (IsInf(a) /\ IsZero(b)) \/ (IsZero(a) /\ IsInf(b)) THEN NaN
    ELSE IF IsInf(a) \/ IsInf(b) THEN Infinity(a.neg # b.neg)
    ELSE [class |-> "fin", neg |-> a.neg # b.neg, mag |-> MulMag(a.mag, b.mag)]

\* float operator+
Add(a, b) ==
    IF IsNaN(a) \/ IsNaN(b) THEN NaN
    ELSE IF IsInf(a) THEN (IF IsInf(b) /\ a.neg # b.neg THEN NaN ELSE a)
    ELSE IF IsInf(b) THEN b
    ELSE LET v == Val(a) + Val(b)
         IN  IF v = 0 /\ a.neg /\ b.neg THEN NegZero ELSE Fin(v)

\* fmax: a NaN argument is ignored; of two equal arguments the first
Fmax(a, b) ==
    IF IsNaN(b) THEN a
    ELSE IF IsNaN(a) THEN b
    ELSE IF GreaterEq(a, b) THEN a ELSE b

\* Natural numbers of any size, as their digits in base One, lowest first:
\* the powers of a magnitude do not fit the integers of the checker.
RECURSIVE BigMul(_, _, _)
BigMul(X, k, carry) ==
    IF X = <<>>
      THEN (IF carry = 0 THEN <<>>
            ELSE <<carry % One>> \o BigMul(<<>>, k, carry \div One))
      ELSE LET t == Head(X) * k + carry
           IN  <<t % One>> \o BigMul(Tail(X), k, t \div One)

RECURSIVE BigDivRem(_, _)
BigDivRem(X, k) ==
    IF X = <<>> THEN [q |-> <<>>, r |-> 0]
    ELSE LET hi == BigDivRem(Tail(X), k)
             t == hi.r * One + Head(X)
         IN  [q |-> <<t \div k>> \o hi.q, r |-> t % k]

RECURSIVE BigVal(_)
BigVal(X) == IF X = <<>> THEN 0 ELSE Head(X) + One * BigVal(Tail(X))

\* X * k^n, and X / k^n rounded down
RECURSIVE BigMulN(_, _, _)
BigMulN(X, k, n) == IF n = 0 THEN X ELSE BigMulN(BigMul(X, k, 0), k, n - 1)

RECURSIVE BigDivN(_, _, _)
BigDivN(X, k, n) == IF n = 0 THEN X ELSE BigDivN(BigDivRem(X, k).q, k, n - 1)

\* (num / den)^n in units of 1/One, rounded down once
RatPowMag(num, den, n) ==
    IF num = den THEN One
    ELSE BigVal(BigDivN(BigMulN(<<0, 1>>, num, n), den, n))

\* pow(x, (int)e) of <cmath>
Pow(x, e) ==
    IF e = 0 THEN Fin(One)
    ELSE IF IsNaN(x) THEN NaN
    ELSE LET neg == x.neg /\ (e % 2 = 1)
         IN  IF IsInf(x)
               THEN (IF e > 0 THEN Infinity(neg)
                     ELSE [class |-> "fin", neg |-> neg, mag |-> 0])
             ELSE IF x.mag = 0
               THEN (IF e > 0 THEN [class |-> "fin", neg |-> neg, mag |-> 0]
                     ELSE Infinity(neg))
             ELSE [class |-> "fin", neg |-> neg,
                   mag |-> IF e > 0 THEN RatPowMag(x.mag, One, e)
                           ELSE RatPowMag(One, x.mag, -e)]

Vec(a, b, c) == <<Fin(a), Fin(b), Fin(c)>>
VecAdd(a, b) == <<Add(a[1], b[1]), Add(a[2], b[2]), Add(a[3], b[3])>>
VecScale(v, k) == <<Mul(v[1], k), Mul(v[2], k), Mul(v[3], k)>>
Hadamard(a, b) == <<Mul(a[1], b[1]), Mul(a[2], b[2]), Mul(a[3], b[3])>>

Black == Vec(0, 0, 0)
White == Vec(One, One, One)

(***************************************************************************)
(* The scene (init_scene, lines 226-264).  A shape is its material; its    *)
(* geometry shows only in what intersection, normal and get_color return,  *)
(* which are inputs of the steps below.  colors is the set of values       *)
(* get_color can return over the surface.  Coefficients init_scene does    *)
(* not set are the defaults of geom.hh; the values here stand for them.    *)
(***************************************************************************)
RedSphere ==
    [colors |-> { Vec(750, 125, 125) }, reflectivity |-> Fin(500),
     diffusion |-> Fin(One), spec_intensity |-> Fin(500), spec_density |-> 5]

GreenSphere ==
    [colors |-> { Vec(125, 600, 125) }, reflectivity |-> Fin(500),
     diffusion |-> Fin(One), spec_intensity |-> Fin(500), spec_density |-> 5]

BlueSphere ==
    [colors |-> { Vec(125, 125, 750) }, reflectivity |-> Fin(500),
     diffusion |-> Fin(One), spec_intensity |-> Fin(500), spec_density |-> 5]

Surface ==
    [colors |-> { Vec(300, 300, 300), Vec(150, 150, 150) }, reflectivity |-> Fin(0),
     diffusion |-> Fin(250), spec_intensity |-> Fin(100), spec_density |-> 10]

\* the scene init_scene builds, in the order of its push_backs
InitScene == <<RedSphere, GreenSphere, BlueSphere, Surface>>

\* a perfect mirror (reflectivity 1.0)
Mirror ==
    [colors |-> { White }, reflectivity |-> Fin(One),
     diffusion |-> Fin(0), spec_intensity |-> Fin(0), spec_density |-> 1]

\* scenes of n facing mirrors; n = 0 is the empty scene
MirrorScene(n) == [k \in 1 .. n |-> Mirror]

\* The scenes raytrace is run on: the program's, and the mirror scenes.
Scenes == { InitScene } \cup { MirrorScene(n) : n \in 0 .. MaxShapes }

\* lights.push_back (lines 262-263)
lights == << <<-1000, 300, 0>>, <<100, 900, 500>> >>

\* what shape->intersection can return: a distance, or a negative value (miss)
Dists == (-1) .. MaxDist
\* dot products of unit vectors, the two zeros included
Dots == {Fin(-One), NegZero, Fin(0), Fin(One)}

ShapeIdx == 1 .. Len(scene)

\* what the shapes return for one shadow ray: it meets at most one shape
ShadowHits ==
    { [k \in ShapeIdx |-> -1] } \cup
    { [k \in ShapeIdx |-> IF k = h THEN dd ELSE -1] : h \in ShapeIdx, dd \in 0 .. MaxDist }

(***************************************************************************)
(* raytrace (lines 139-220)                                                *)
(***************************************************************************)
\* line 150: does this shape replace the closest one found so far?
CloserOrEqual(distance, intersect_distance, isnull) ==
    distance >= 0 /\ (distance <= intersect_distance \/ isnull)
Closer(distance, intersect_distance, isnull) ==
    distance >= 0 /\ (distance < intersect_distance \/ isnull)

\* lines 144-154: d[k] is what scene[k]->intersection(origin, dir) returned
RECURSIVE ClosestFrom(_, _, _)
ClosestFrom(d, k, acc) ==
    IF k > Len(d) THEN acc
    ELSE ClosestFrom(d, k + 1,
                     IF Closer(d[k], acc.dist, acc.shape = 0)
                       THEN [shape |-> k, dist |-> d[k]]
                       ELSE acc)

ClosestHit(d) == ClosestFrom(d, 1, [shape |-> 0, dist |-> 0])

\* line 157
AmbientColor == Vec(AMBIENT, AMBIENT, AMBIENT)

\* line 166
AmbientBaseUnscaled(c) == c
AmbientBase(c) == VecScale(c, Fin(AMBIENT))

\* line 169
RecurseCondInclusive(reflections) == reflections <= MAX_REFLECTIONS
RecurseCond(reflections) == reflections < MAX_REFLECTIONS

\* lines 180-181
ReflectChannel(result, reflected, color, reflectivity) ==
    Add(result, Mul(Mul(reflected, color), reflectivity))

AddReflection(result, reflected, color, reflectivity) ==
    <<ReflectChannel(result[1], reflected[1], color[1], reflectivity),
      ReflectChannel(result[2], reflected[2], color[2], reflectivity),
      ReflectChannel(result[3], reflected[3], color[3], reflectivity)>>

\* line 191
BlocksStrict(distance) == distance > 0
Blocks(distance) == distance >= 0

\* lines 189-195: sd[k] is what scene[k]->intersection(intersection, shadow_dir)
\* returned; the loop stops at the first shape that blocks
RECURSIVE ShadowFrom(_, _)
ShadowFrom(sd, k) ==
    IF k > Len(sd) THEN FALSE
    ELSE IF Blocks(sd[k]) THEN TRUE
    ELSE ShadowFrom(sd, k + 1)

InShadow(sd) == ShadowFrom(sd, 1)

\* lines 200-201
DiffuseIntensity(diffusion, ndl) == Mul(diffusion, Fmax(Fin(0), ndl))

\* lines 210-211
SpecularIntensity(spec_intensity, ndh, spec_density) ==
    Mul(spec_intensity, Fmax(Fin(0), Pow(ndh, spec_density)))

\* lines 186-215: one iteration of the light loop
AddLight(result, m, color, sd, ndl, ndh) ==
    IF InShadow(sd) THEN result
    ELSE VecAdd(VecAdd(result, VecScale(color, DiffuseIntensity(m.diffusion, ndl))),
                VecScale(White,
                         SpecularIntensity(m.spec_intensity, ndh, m.spec_density)))

\* an activation of raytrace
NewFrame(depth) ==
    [depth |-> depth, shape |-> 0, color |-> Black, result |-> Black,
     reflected |-> Black, phase |-> "enter", li |-> 0]

NoHits == [at |-> 0, d |-> <<>>]
NoProbe == [light |-> 0, sd |-> <<>>, ndl |-> Fin(0), ndh |-> Fin(0), before |-> Black]

Top == stack[Len(stack)]
SetTop(f) == [stack EXCEPT ![Len(stack)] = f]

InitTraceIdle ==
    /\ tpc = "idle"
    /\ stack = <<>>
    /\ hits = NoHits
    /\ probe = NoProbe
    /\ retval = Black
    /\ ncalls = 0
    /\ nsteps = 0

Init ==
    /\ height \in 1 .. MaxHeight
    /\ nthreads \in 1 .. MaxThreads
    /\ pc = "loop_test"
    /\ running = TRUE
    /\ events = <<>>
    /\ nposted = 0
    /\ clock = 0
    /\ start_time = 0
    /\ yrot = 0
    /\ per_thread = 0
    /\ i = 0
    /\ j = 0
    /\ args = [k \in Workers |-> NoArgs]
    /\ th = [k \in Workers |-> [state |-> "none", y |-> 0, x |-> 0]]
    /\ bmp = [c \in Cells |-> Unset]
    /\ writes = {}
    /\ shown = <<>>
    /\ quit_frames = 0
    /\ exit_code = <<>>
    /\ scene = InitScene
    /\ InitTraceIdle

\* The window system queues an event (SDL); it may do so at any time.
PostEvent ==
    /\ pc \notin {"exited", "crashed"}
    /\ nposted < MaxEvents
    /\ \E e \in {"quit", "other"} : events' = Append(events, e)
    /\ nposted' = nposted + 1
    /\ UNCHANGED <<height, nthreads, pc, running, clock, start_time, yrot, per_thread, i, j, args, th, bmp, writes, shown,
                   quit_frames, exit_code>>
    /\ UNCHANGED trace_vars

\* while(running) (line 80) and return 0 (line 129)
LoopTest ==
    /\ pc = "loop_test"
    /\ IF LoopCond(running)
         THEN pc' = "poll" /\ exit_code' = exit_code
         ELSE pc' = "exited" /\ exit_code' = <<0>>
    /\ UNCHANGED <<height, nthreads, running, events, nposted, clock, start_time,
                   yrot, per_thread, i, j, args, th, bmp, writes,
                   shown, quit_frames>>
    /\ UNCHANGED trace_vars

\* SDL_PollEvent returned 1 (lines 83-86)
PollEvent ==
    /\ pc = "poll"
    /\ events # <<>>
    /\ events' = Tail(events)
    /\ running' = IF Head(events) = "quit" THEN FALSE ELSE running
    /\ UNCHANGED <<height, nthreads, pc, nposted, clock, start_time, yrot, per_thread, i, j, args, th, bmp, writes, shown,
                   quit_frames, exit_code>>
    /\ UNCHANGED trace_vars

\* SDL_PollEvent returned 0; lines 89-99: read the clock, allocate the bitmap
PollEmpty ==
    /\ pc = "poll"
    /\ events = <<>>
    /\ \E t \in clock .. MaxTime :
          /\ clock' = t
          /\ yrot' = t - start_time
    /\ bmp' = [c \in Cells |-> Unset]
    /\ writes' = {}
    /\ per_thread' = PerThread(height, nthreads)
    /\ i' = 0
    /\ quit_frames' = IF running THEN quit_frames
                      ELSE IF quit_frames < 2 THEN quit_frames + 1 ELSE 2
    /\ pc' = "create"
    /\ UNCHANGED <<height, nthreads, running, events, nposted, start_time,
                   j, args, th, shown, exit_code>>
    /\ UNCHANGED trace_vars

\* one iteration of lines 100-108: fill args[i], pthread_create succeeds
Create ==
    /\ pc = "create"
    /\ i < nthreads
    /\ args' = [args EXCEPT ![i] = [start |-> BandStart(i, per_thread),
                                    end |-> BandEnd(i, per_thread),
                                    yrot |-> ArgYrot(yrot, i)]]
    /\ th' = [th EXCEPT ![i] = [state |-> "running",
                                y |-> BandStart(i, per_thread), x |-> 0]]
    /\ i' = i + 1
    /\ UNCHANGED <<height, nthreads, pc, running, events, nposted, clock, start_time,
                   yrot, per_thread, j, bmp, writes, shown,
                   quit_frames, exit_code>>
    /\ UNCHANGED trace_vars

\* one iteration of lines 100-108: fill args[i], pthread_create fails (EAGAIN).
\* Line 107 ignores the return value: no thread runs and threads[i] is not set.
CreateFail ==
    /\ pc = "create"
    /\ i < nthreads
    /\ args' = [args EXCEPT ![i] = [start |-> BandStart(i, per_thread),
                                    end |-> BandEnd(i, per_thread),
                                    yrot |-> ArgYrot(yrot, i)]]
    /\ th' = [th EXCEPT ![i] = [state |-> "failed",
                                y |-> BandStart(i, per_thread), x |-> 0]]
    /\ i' = i + 1
    /\ UNCHANGED <<height, nthreads, pc, running, events, nposted, clock, start_time,
                   yrot, per_thread, j, bmp, writes, shown,
                   quit_frames, exit_code>>
    /\ UNCHANGED trace_vars

\* the loop of lines 100-108 ends
CreateDone ==
    /\ pc = "create"
    /\ i >= nthreads
    /\ j' = 0
    /\ pc' = "join"
    /\ UNCHANGED <<height, nthreads, running, events, nposted, clock, start_time,
                   yrot, per_thread, i, args, th, bmp, writes, shown,
                   quit_frames, exit_code>>
    /\ UNCHANGED trace_vars

\* one iteration of lines 111-113: pthread_join(threads[j]) returns
Join ==
    /\ pc = "join"
    /\ j < nthreads
    /\ JoinReady(th[j].state)
    /\ th' = [th EXCEPT ![j].state = IF @ = "finished" THEN "joined" ELSE @]
    /\ j' = j + 1
    /\ UNCHANGED <<height, nthreads, pc, running, events, nposted, clock, start_time,
                   yrot, per_thread, i, args, bmp, writes, shown,
                   quit_frames, exit_code>>
    /\ UNCHANGED trace_vars

\* one iteration of lines 111-113 for a slot whose pthread_create failed:
\* threads[j] holds whatever the stack held, and pthread_join on it is
\* undefined.  The process is killed (SIGSEGV), or pthread_join returns an
\* error, which line 112 ignores, or pthread_join never returns.
JoinInvalid ==
    /\ pc = "join"
    /\ j < nthreads
    /\ th[j].state = "failed"
    /\ \/ pc' = "crashed" /\ j' = j
       \/ pc' = pc /\ j' = j + 1
       \/ pc' = "hung" /\ j' = j
    /\ UNCHANGED <<height, nthreads, running, events, nposted, clock, start_time,
                   yrot, per_thread, i, args, th, bmp, writes, shown,
                   quit_frames, exit_code>>
    /\ UNCHANGED trace_vars

\* the loop of lines 111-113 ends
JoinDone ==
    /\ pc = "join"
    /\ j >= nthreads
    /\ pc' = "display"
    /\ UNCHANGED <<height, nthreads, running, events, nposted, clock, start_time,
                   yrot, per_thread, i, j, args, th, bmp, writes,
                   shown, quit_frames, exit_code>>
    /\ UNCHANGED trace_vars

\* line 117: ui.display(bmp).  Lines 119-126 read the clock to compute and
\* print the frame rate, which nothing else reads; they are left out.
Display ==
    /\ pc = "display"
    /\ shown' = <<bmp>>
    /\ pc' = "loop_test"
    /\ UNCHANGED <<height, nthreads, running, events, nposted, clock, start_time,
                   yrot, per_thread, i, j, args, th, bmp, writes, quit_frames,
                   exit_code>>
    /\ UNCHANGED trace_vars

\* thread_fn: one pixel of lines 270-300 (bmp->set at line 299)
WorkerPixel(k) ==
    /\ pc # "crashed"
    /\ th[k].state = "running"
    /\ RowCond(th[k].y, args[k].end)
    /\ bmp' = [c \in Cells |->
                 IF c = <<th[k].x, th[k].y>>
                   THEN PixelColor(th[k].x, th[k].y, args[k].yrot)
                   ELSE bmp[c]]
    /\ writes' = writes \cup {<<k, th[k].x, th[k].y>>}
    /\ th' = [th EXCEPT ![k] = IF th[k].x + 1 < WIDTH
                                 THEN [@ EXCEPT !.x = @ + 1]
                                 ELSE [@ EXCEPT !.x = 0, !.y = @ + 1]]
    /\ UNCHANGED <<height, nthreads, pc, running, events, nposted, clock, start_time,
                   yrot, per_thread, i, j, args, shown, quit_frames,
                   exit_code>>
    /\ UNCHANGED trace_vars

\* thread_fn: the row loop ends, return NULL (line 303)
WorkerReturn(k) ==
    /\ pc # "crashed"
    /\ th[k].state = "running"
    /\ ~RowCond(th[k].y, args[k].end)
    /\ th' = [th EXCEPT ![k].state = "finished"]
    /\ UNCHANGED <<height, nthreads, pc, running, events, nposted, clock, start_time,
                   yrot, per_thread, i, j, args, bmp, writes, shown,
                   quit_frames, exit_code>>
    /\ UNCHANGED trace_vars

Driver == LoopTest \/ PollEvent \/ PollEmpty \/ Create \/ CreateFail \/ CreateDone
             \/ Join \/ JoinInvalid \/ JoinDone \/ Display

Worker(k) == k \in Workers /\ (WorkerPixel(k) \/ WorkerReturn(k))

Next ==
    \/ PostEvent
    \/ LoopTest
    \/ PollEvent
    \/ PollEmpty
    \/ Create
    \/ CreateFail
    \/ CreateDone
    \/ Join
    \/ JoinInvalid
    \/ JoinDone
    \/ Display
    \/ \E k \in Workers : WorkerPixel(k)
    \/ \E k \in Workers : WorkerReturn(k)

Spec == Init /\ [][Next]_vars

\* The process keeps running: while main or a created thread can take a step,
\* one of them eventually does.  The window system need not post anything.
Program == Driver \/ \E k \in Workers : Worker(k)

FairSpec == Spec /\ WF_vars(Program)

(***************************************************************************)
(* raytrace as a state machine                                             *)
(***************************************************************************)
InitTrace ==
    /\ height = 1
    /\ nthreads = 1
    /\ pc = "loop_test"
    /\ running = TRUE
    /\ events = <<>>
    /\ nposted = 0
    /\ clock = 0
    /\ start_time = 0
    /\ yrot = 0
    /\ per_thread = 0
    /\ i = 0
    /\ j = 0
    /\ args = [k \in Workers |-> NoArgs]
    /\ th = [k \in Workers |-> [state |-> "none", y |-> 0, x |-> 0]]
    /\ bmp = [c \in Cells |-> Unset]
    /\ writes = {}
    /\ shown = <<>>
    /\ quit_frames = 0
    /\ exit_code = <<>>
    /\ scene \in Scenes
    /\ InitTraceIdle

\* thread_fn calls raytrace(origin, dir, 0) (lines 289-291)
TraceCall ==
    /\ tpc = "idle"
    /\ tpc' = "run"
    /\ stack' = <<NewFrame(0)>>
    /\ ncalls' = 1
    /\ nsteps' = 0
    /\ hits' = NoHits
    /\ probe' = NoProbe
    /\ UNCHANGED <<scene, retval>>
    /\ UNCHANGED frame_vars

\* lines 141-157: the closest-hit loop finds no shape; return the ambient colour
TraceMiss ==
    /\ tpc = "run"
    /\ Top.phase = "enter"
    /\ \E d \in [ShapeIdx -> Dists] :
          /\ ClosestHit(d).shape = 0
          /\ hits' = [at |-> Len(stack), d |-> d]
    /\ stack' = SetTop([Top EXCEPT !.result = AmbientColor, !.phase = "ret"])
    /\ probe' = NoProbe
    /\ nsteps' = nsteps + 1
    /\ UNCHANGED <<scene, tpc, retval, ncalls>>
    /\ UNCHANGED frame_vars

\* lines 141-177: the closest-hit loop finds a shape; result is the ambient
\* base; below the bound raytrace is called for the reflected ray
TraceHit ==
    /\ tpc = "run"
    /\ Top.phase = "enter"
    /\ \E d \in [ShapeIdx -> Dists] :
          LET h == ClosestHit(d) IN
          /\ h.shape # 0
          /\ hits' = [at |-> Len(stack), d |-> d]
          /\ \E c \in scene[h.shape].colors :
                LET f == [Top EXCEPT !.shape = h.shape, !.color = c,
                                     !.result = AmbientBase(c)]
                IN  IF RecurseCond(Top.depth)
                      THEN /\ stack' = Append(SetTop([f EXCEPT !.phase = "wait"]),
                                              NewFrame(Top.depth + 1))
                           /\ ncalls' = ncalls + 1
                      ELSE /\ stack' = SetTop([f EXCEPT !.phase = "ret"])
                           /\ ncalls' = ncalls
    /\ probe' = NoProbe
    /\ nsteps' = nsteps + 1
    /\ UNCHANGED <<scene, tpc, retval>>
    /\ UNCHANGED frame_vars

\* line 219 (or 157) of a nested call, then lines 177-181 of its caller
TraceReturn ==
    /\ tpc = "run"
    /\ Top.phase = "ret"
    /\ Len(stack) > 1
    /\ LET caller == stack[Len(stack) - 1]
           m == scene[caller.shape]
           f == [caller EXCEPT
                   !.reflected = Top.result,
                   !.result = AddReflection(caller.result, Top.result,
                                            caller.color, m.reflectivity),
                   !.phase = IF Len(lights) = 0 THEN "ret" ELSE "lights",
                   !.li = 1]
       IN  stack' = [k \in 1 .. (Len(stack) - 1) |->
                        IF k = Len(stack) - 1 THEN f ELSE stack[k]]
    /\ hits' = NoHits
    /\ probe' = NoProbe
    /\ nsteps' = nsteps + 1
    /\ UNCHANGED <<scene, tpc, retval, ncalls>>
    /\ UNCHANGED frame_vars

\* one iteration of the loop over the lights (lines 184-216) on the top
\* activation: sd is what the shapes return for the shadow ray, ndl and ndh are
\* n.dot(shadow_dir) and n.dot(bisector)
LightStep(sd, ndl, ndh) ==
    /\ stack' = SetTop([Top EXCEPT
                          !.result = AddLight(Top.result, scene[Top.shape],
                                              Top.color, sd, ndl, ndh),
                          !.li = Top.li + 1,
                          !.phase = IF Top.li >= Len(lights)
                                      THEN "ret" ELSE "lights"])
    /\ probe' = [light |-> Top.li, sd |-> sd, ndl |-> ndl, ndh |-> ndh,
                 before |-> Top.result]
    /\ hits' = NoHits
    /\ nsteps' = nsteps + 1
    /\ UNCHANGED <<scene, tpc, retval, ncalls>>
    /\ UNCHANGED frame_vars

\* lines 184-196: the shadow ray meets a shape, the dot products are not computed
TraceLightShadowed ==
    /\ tpc = "run"
    /\ Top.phase = "lights"
    /\ \E sd \in ShadowHits :
          /\ InShadow(sd)
          /\ LightStep(sd, Fin(0), Fin(0))

\* lines 184-215: a clear path to the light
TraceLightClear ==
    /\ tpc = "run"
    /\ Top.phase = "lights"
    /\ \E sd \in ShadowHits, ndl \in Dots, ndh \in Dots :
          /\ ~InShadow(sd)
          /\ LightStep(sd, ndl, ndh)

\* line 219 (or 157) of the outermost call
TraceDone ==
    /\ tpc = "run"
    /\ Top.phase = "ret"
    /\ Len(stack) = 1
    /\ retval' = Top.result
    /\ stack' = <<>>
    /\ tpc' = "done"
    /\ hits' = NoHits
    /\ probe' = NoProbe
    /\ nsteps' = nsteps + 1
    /\ UNCHANGED <<scene, ncalls>>
    /\ UNCHANGED frame_vars

NextTrace ==
    \/ TraceCall
    \/ TraceMiss
    \/ TraceHit
    \/ TraceReturn
    \/ TraceLightShadowed
    \/ TraceLightClear
    \/ TraceDone

TraceSpec == InitTrace /\ [][NextTrace]_vars

(***************************************************************************)
(* Claims about the frame driver and the workers                           *)
(***************************************************************************)
InBand(k, y) == args[k].start <= y /\ y < args[k].end

\* C1: once every worker of a frame has been created, the bands
\* [args[k].start, args[k].end) cover every row of [0, height) exactly once
\* and contain no row outside it, for every height >= 1 and worker count >= 1.
C1_BandsCoverAllRows ==
    pc = "join" =>
        /\ \A y \in 0 .. (height - 1) :
              Cardinality({k \in Workers : InBand(k, y)}) = 1
        /\ \A k \in Workers : args[k].start >= 0 /\ args[k].end <= height

\* C2: every bmp->set of a frame is for a row of the writing worker's own band
\* and a column in [0, WIDTH), and no cell is written by two different workers.
C2_NoWriteRace ==
    \A w \in writes :
        /\ InBand(w[1], w[3])
        /\ 0 <= w[2] /\ w[2] < WIDTH
        /\ \A v \in writes : (v[2] = w[2] /\ v[3] = w[3]) => v[1] = w[1]

\* C2 witness: two workers are running at once and both have written cells.
C2_Witness ==
    \E k1, k2 \in Workers :
        /\ k1 # k2
        /\ th[k1].state = "running" /\ th[k2].state = "running"
        /\ \E w1, w2 \in writes : w1[1] = k1 /\ w2[1] = k2

\* C3: the buffer is displayed only when every worker created for the frame
\* has been joined; outside the create and join loops no worker is running (so
\* none writes after the display, and the displayed buffer is not changed
\* before the loop is tested again); and a worker is created only when the
\* worker of the previous frame in its slot is not running any more.
C3_DisplayAfterJoin ==
    /\ pc = "display" => \A k \in Workers : th[k].state \in {"joined", "failed"}
    /\ pc \in {"loop_test", "poll", "display", "exited"} =>
           \A k \in Workers : th[k].state \in {"none", "joined", "failed"}
    /\ pc = "create" =>
           \A k \in Workers : k >= i => th[k].state \in {"none", "joined", "failed"}
    /\ (pc = "loop_test" /\ shown # <<>>) => shown[1] = bmp

\* C3 witness: a frame rendered by several workers is about to be displayed.
C3_Witness ==
    /\ pc = "display"
    /\ nthreads >= 2
    /\ \A k \in Workers : th[k].state = "joined"
    /\ \E w1, w2 \in writes : w1[1] # w2[1]

\* C7: every cell a worker has written holds the colour that depends only on
\* (x, y, the frame's angle), whatever the interleaving; and when the workers
\* have been joined, exactly the cells of the bands of the workers that were
\* created have been written.
C7_FrameDeterministic ==
    /\ \A w \in writes : bmp[<<w[2], w[3]>>] = PixelColor(w[2], w[3], yrot)
    /\ pc = "display" =>
          \A c \in Cells :
             IF \E k \in Workers : th[k].state = "joined" /\ InBand(k, c[2])
               THEN bmp[c] = PixelColor(c[1], c[2], yrot)
               ELSE bmp[c] = Unset

\* C7 witness: a frame of a later angle rendered by several workers has been joined.
C7_Witness ==
    /\ pc = "display"
    /\ yrot > 0
    /\ nthreads >= 2
    /\ per_thread >= 1
    /\ \A k \in Workers : th[k].state = "joined"

\* C8: running changes only in the event poll; the loop condition is tested
\* again only after the display; a frame whose workers are being dispatched is
\* eventually displayed; and once a quit has been polled main eventually
\* returns 0, having set up at most the frame of the iteration that polled it.
C8_QuitBetweenFrames ==
    /\ [][running' # running => (pc = "poll" /\ pc' = "poll")]_vars
    /\ [][(pc' = "loop_test" /\ pc # "loop_test") => pc = "display"]_vars
    /\ [](quit_frames <= 1)
    /\ (pc \in {"create", "join"}) ~> (pc = "display")
    /\ (running = FALSE) ~> (pc = "exited" /\ exit_code = <<0>>)

(***************************************************************************)
(* Claims about raytrace                                                   *)
(***************************************************************************)
\* the steps one call can take: every activation enters and returns once, and
\* every activation that made a nested call runs the light loop
StepBound == 2 * (MAX_REFLECTIONS + 1) + MAX_REFLECTIONS * Len(lights)

\* C4: a call raytrace(o, d, 0) returns: while it runs some step is enabled,
\* and it takes at most StepBound steps.  At most MAX_REFLECTIONS + 1
\* activations are nested and at most that many calls are made; the k-th
\* activation has depth k - 1 (each call adds exactly 1), and an activation at
\* depth MAX_REFLECTIONS never waits for a nested call.
C4_RecursionBounded ==
    /\ Len(stack) <= MAX_REFLECTIONS + 1
    /\ ncalls <= MAX_REFLECTIONS + 1
    /\ nsteps <= StepBound
    /\ \A k \in 1 .. Len(stack) :
          /\ stack[k].depth = k - 1
          /\ stack[k].depth >= MAX_REFLECTIONS => stack[k].phase # "wait"
          /\ stack[k].phase = "wait" <=> k < Len(stack)
    /\ tpc = "run" => (stack # <<>> /\ ENABLED NextTrace)
    /\ tpc = "done" => stack = <<>>

\* C4 witness: in a scene of mirrors (reflectivity 1.0) every reflected ray hit
\* a shape again and the activation at depth MAX_REFLECTIONS is returning.
C4_Witness ==
    /\ tpc = "run"
    /\ Len(scene) >= 2
    /\ \A k \in ShapeIdx : scene[k].reflectivity = Fin(One)
    /\ Len(stack) = MAX_REFLECTIONS + 1
    /\ Top.shape # 0
    /\ Top.phase = "ret"
    /\ ncalls = MAX_REFLECTIONS + 1

\* a coefficient above zero
Positive(a) == ~IsNaN(a) /\ ~a.neg /\ ~IsZero(a)

\* the activation that ran the last closest-hit loop
Prober == stack[hits.at]

\* C5: the closest-hit loop selects a shape of minimum non-negative distance,
\* the earliest inserted one among those at that distance; a shape that
\* reported a negative distance is never selected; and no shape is selected
\* when every distance is negative.
C5_ClosestHitEarliest ==
    hits.at # 0 =>
        IF \E k \in ShapeIdx : hits.d[k] >= 0
          THEN /\ Prober.shape \in ShapeIdx
               /\ hits.d[Prober.shape] >= 0
               /\ \A k \in ShapeIdx :
                     hits.d[k] >= 0 => hits.d[Prober.shape] <= hits.d[k]
               /\ \A k \in ShapeIdx :
                     k < Prober.shape => hits.d[k] # hits.d[Prober.shape]
          ELSE Prober.shape = 0

\* C5 witness: two shapes report the same, minimal, non-negative distance.
C5_Witness ==
    /\ hits.at # 0
    /\ \E k1, k2 \in ShapeIdx :
          /\ k1 < k2
          /\ hits.d[k1] = hits.d[k2]
          /\ hits.d[k1] >= 0
          /\ \A k \in ShapeIdx : hits.d[k] >= 0 => hits.d[k1] <= hits.d[k]
    /\ Prober.shape # 0

Occluded == \E k \in DOMAIN probe.sd : probe.sd[k] >= 0

\* C6: below the bound, before the first light the result is the ambient base
\* plus the reflective term, and a light whose shadow ray meets a shape at a
\* non-negative distance leaves the result as it was.
C6_OccludedLightAddsNothing ==
    /\ (tpc = "run" /\ Top.phase = "lights" /\ Top.li = 1) =>
          Top.result = VecAdd(VecScale(Top.color, Fin(AMBIENT)),
                              VecScale(Hadamard(Top.reflected, Top.color),
                                       scene[Top.shape].reflectivity))
    /\ (probe.light # 0 /\ Occluded) => Top.result = probe.before

\* C6 witness: an occluded light on a shape with a diffuse coefficient and a
\* non-zero reflective term.
C6_Witness ==
    /\ probe.light # 0
    /\ Occluded
    /\ \A k \in DOMAIN probe.sd : probe.sd[k] <= 0
    /\ Top.depth < MAX_REFLECTIONS
    /\ Positive(scene[Top.shape].diffusion)
    /\ Positive(scene[Top.shape].spec_intensity)
    /\ Positive(scene[Top.shape].reflectivity)
    /\ Top.reflected # Black

\* C9: an unshadowed light adds the diffuse term and the specular term
\* spec_intensity * max(0, n.h)^spec_density, the dot product being clamped
\* before it is raised to the power.
C9_SpecularClampedFirst ==
    (probe.light # 0 /\ ~Occluded) =>
        LET m == scene[Top.shape]
            diffuse == VecScale(Top.color, Mul(m.diffusion, Fmax(Fin(0), probe.ndl)))
            specular == VecScale(White,
                                 Mul(m.spec_intensity,
                                     Pow(Fmax(Fin(0), probe.ndh), m.spec_density)))
        IN  Top.result = VecAdd(VecAdd(probe.before, diffuse), specular)

\* C10: an activation at depth MAX_REFLECTIONS that hit a shape returns the
\* shape's colour at the hit point scaled by AMBIENT and nothing else; an
\* activation at any depth that hit no shape returns (AMBIENT, AMBIENT, AMBIENT).
C10_BoundAndMissColours ==
    (tpc = "run" /\ Top.phase = "ret") =>
        /\ (Top.shape # 0 /\ Top.depth = MAX_REFLECTIONS) =>
               /\ Top.result = VecScale(Top.color, Fin(AMBIENT))
               /\ Top.color \in scene[Top.shape].colors
        /\ Top.shape = 0 => Top.result = Vec(AMBIENT, AMBIENT, AMBIENT)

\* C10 witness: the activation at the bound hit a reflective shape with a
\* diffuse coefficient and is returning.
C10_Witness ==
    /\ tpc = "run"
    /\ Top.phase = "ret"
    /\ Top.depth = MAX_REFLECTIONS
    /\ Top.shape # 0
    /\ Positive(scene[Top.shape].reflectivity)
    /\ Positive(scene[Top.shape].diffusion)

====
